---- MODULE Spec2Model ----
(***************************************************************************)
(* Three-way tree merge of src/utils/mergeTree.js: the per-path map        *)
(* callback (change classification, decision table, mergeBlobs), the       *)
(* bottom-up reduce callback, and the walk that drives them.               *)
(***************************************************************************)
EXTENDS Integers, FiniteSets, Sequences, TLC

VARIABLES trees, dryRun, pc, res, store, writes, calls, resolved, thrown, outcome, ret

vars == <<trees, dryRun, pc, res, store, writes, calls, resolved, thrown, outcome, ret>>

(***************************************************************************)
(* Bounds and value universes                                              *)
(***************************************************************************)
\* a text is a pair of regions, each holding a value of 0..MaxContent;
\* value 0 is "no lines", so <<0, 0>> is the empty string
MaxContent == 2

\* the versions of d/g in the trees walked in depth have first regions 0..MaxWalkText
MaxWalkText == 2

Regions == 0..MaxContent

Texts == Regions \X Regions

EmptyText == <<0, 0>>

\* region value standing for a block of conflict markers
Marker == -1

BlobModes == {"100644", "100755"}

TreeMode == "040000"

Sides == {"ours", "base", "theirs"}

\* the paths of the walked trees: root holds d and f, d holds g
Paths == {"root", "d", "f", "g"}

Parent == [p \in Paths \ {"root"} |-> IF p = "g" THEN "d" ELSE "root"]

Children(p) == {c \in Paths \ {"root"} : Parent[c] = p}

(***************************************************************************)
(* Objects and object ids                                                  *)
(***************************************************************************)
NoOid == [k |-> "none", c |-> EmptyText, es |-> {}]

\* content-addressed id of a blob holding text
BlobOid(text) == [k |-> "blob", c |-> text, es |-> {}]

\* content-addressed id of a tree holding the set of entries
TreeOid(entries) == [k |-> "tree", c |-> EmptyText, es |-> entries]

\* a side has no entry at the path
Null == [type |-> "null", mode |-> "null", oid |-> NoOid]

\* a result entry that is omitted from the parent's tree
Undefined == [mode |-> "undefined", path |-> "", oid |-> NoOid, type |-> "undefined"]

BlobEntry(mode, text) == [type |-> "blob", mode |-> mode, oid |-> BlobOid(text)]

TreeEntry(entries) == [type |-> "tree", mode |-> TreeMode, oid |-> TreeOid(entries)]

\* the entry a tree object holds for the walker entry e at path
AsEntry(path, e) == [mode |-> e.mode, path |-> path, oid |-> e.oid, type |-> e.type]

(***************************************************************************)
(* ChangeDetector                                                          *)
(***************************************************************************)
Modified(entry, base) ==
    IF entry = Null /\ base = Null THEN FALSE
    ELSE IF entry # Null /\ base = Null THEN TRUE
    ELSE IF entry = Null /\ base # Null THEN TRUE
    ELSE IF entry.type = "tree" /\ base.type = "tree" THEN FALSE
    ELSE IF entry.type = base.type /\ entry.mode = base.mode /\ entry.oid = base.oid
         THEN FALSE
    ELSE TRUE

(***************************************************************************)
(* TextMerger and ObjectStore (collaborators)                              *)
(***************************************************************************)
\* three-way merge of one region: a side that kept base yields to the other
\* side, two sides that agree are taken, anything else is a conflict
MergeRegion(o, b, t) ==
    IF o = t THEN o
    ELSE IF o = b THEN t
    ELSE IF t = b THEN o
    ELSE Marker

mergeFile(ourContent, baseContent, theirContent) ==
    LET r1 == MergeRegion(ourContent[1], baseContent[1], theirContent[1])
        r2 == MergeRegion(ourContent[2], baseContent[2], theirContent[2])
    IN  [mergedText |-> <<r1, r2>>, cleanMerge |-> r1 # Marker /\ r2 # Marker]

\* the objects persisted after writeObject of oid with the given dryRun
writeObject(objects, oid, dry) == IF dry THEN objects ELSE objects \cup {oid}

(***************************************************************************)
(* BlobMerger                                                              *)
(***************************************************************************)
\* entry.mode() of a side that may be absent
ModeOf(e) == IF e # Null THEN e.mode ELSE "null"

\* entry.content() decoded, "" when the read throws (absent side, tree)
ContentOf(e) == IF e # Null /\ e.type = "blob" THEN e.oid.c ELSE EmptyText

\* the dryRun that mergeBlobs receives from the map callback's call sites
MergeBlobsDryRun(dr) == FALSE

\* the mode of the three-way shortcuts
MergedMode(baseMode, ourMode, theirMode) ==
    IF baseMode = ourMode THEN theirMode ELSE ourMode

\* the mode of the entry returned after the blob write
WrittenMode(ourMode, theirMode) == IF ourMode # "null" THEN ourMode ELSE theirMode

\* whether the three-way shortcuts of mergeBlobs are considered
ModesKnown(ours, base, theirs) ==
    ModeOf(base) # "null" /\ ModeOf(ours) # "null" /\ ModeOf(theirs) # "null"

Step(kind, entry, text, called) ==
    [kind |-> kind, entry |-> entry, text |-> text, calls |-> called]

\* the entry mergeBlobs returns once the final text is written
MergeBlobsWritten(path, ours, theirs, text) ==
    [mode |-> WrittenMode(ModeOf(ours), ModeOf(theirs)), path |-> path,
     oid |-> BlobOid(text), type |-> "blob"]

\* mergeBlobs up to its first suspension in the ConflictResolver
mergeBlobs(path, ours, base, theirs) ==
    LET mode == MergedMode(ModeOf(base), ModeOf(ours), ModeOf(theirs))
        short(oid) == Step("return",
                           [mode |-> mode, path |-> path, oid |-> oid, type |-> "blob"],
                           EmptyText, {"mergeBlobs"})
        m == mergeFile(ContentOf(ours), ContentOf(base), ContentOf(theirs))
    IN  IF ModesKnown(ours, base, theirs) /\ ours.oid = theirs.oid THEN short(ours.oid)
        ELSE IF ModesKnown(ours, base, theirs) /\ ours.oid = base.oid THEN short(theirs.oid)
        ELSE IF ModesKnown(ours, base, theirs) /\ theirs.oid = base.oid THEN short(ours.oid)
        ELSE IF m.cleanMerge
             THEN Step("write", MergeBlobsWritten(path, ours, theirs, m.mergedText),
                       m.mergedText, {"mergeBlobs", "mergeFile"})
        ELSE Step("await", Undefined, m.mergedText,
                  {"mergeBlobs", "mergeFile", "resolver"})

(***************************************************************************)
(* MergeDecisionEngine                                                     *)
(***************************************************************************)
Verbatim(path, e) == IF e # Null THEN AsEntry(path, e) ELSE Undefined

Return(entry) == Step("return", entry, EmptyText, {})

NotSupported == Step("throw", Undefined, EmptyText, {})

\* case 'false-false'
Unchanged(path, ours, base, theirs) == Return(AsEntry(path, base))

\* case 'false-true' answering with the base entry instead of theirs
TakeTheirsKeepsBase(path, ours, base, theirs) == Return(Verbatim(path, base))

\* case 'false-true'
TakeTheirs(path, ours, base, theirs) == Return(Verbatim(path, theirs))

\* case 'true-false' refusing a change of type on our side
TakeOursRejectsTypeChange(path, ours, base, theirs) ==
    IF ours # Null /\ base # Null /\ ours.type # base.type
    THEN NotSupported
    ELSE Return(Verbatim(path, ours))

\* case 'true-false'
TakeOurs(path, ours, base, theirs) == Return(Verbatim(path, ours))

\* case 'true-true'
BothChanged(path, ours, base, theirs) ==
    IF ours # Null /\ base # Null /\ theirs # Null
       /\ ours.type = "blob" /\ base.type = "blob" /\ theirs.type = "blob"
    THEN mergeBlobs(path, ours, base, theirs)
    ELSE IF base = Null /\ ours.type = "blob" /\ theirs.type = "blob"
    THEN mergeBlobs(path, ours, base, theirs)
    ELSE IF base = Null /\ ours.type = "tree" /\ theirs.type = "tree"
    THEN Return(Verbatim(path, ours))
    ELSE IF base # Null /\ ours = Null /\ theirs = Null
    THEN Return(Undefined)
    ELSE IF base # Null /\ ours # Null /\ theirs = Null /\ ours.type = "blob"
    THEN mergeBlobs(path, ours, base, theirs)
    ELSE IF base # Null /\ theirs # Null /\ ours = Null /\ theirs.type = "blob"
    THEN mergeBlobs(path, ours, base, theirs)
    ELSE NotSupported

\* the map callback up to its first suspension in the ConflictResolver
map(path, ours, base, theirs) ==
    LET ourChange == Modified(ours, base)
        theirChange == Modified(theirs, base)
    IN  IF ~ourChange /\ ~theirChange THEN Unchanged(path, ours, base, theirs)
        ELSE IF ~ourChange /\ theirChange THEN TakeTheirs(path, ours, base, theirs)
        ELSE IF ourChange /\ ~theirChange THEN TakeOurs(path, ours, base, theirs)
        ELSE BothChanged(path, ours, base, theirs)

(***************************************************************************)
(* Inputs: the three trees handed to the walk                              *)
(***************************************************************************)
\* the tree object of a directory holding the present ones of the named kids
Dir(names, kids) ==
    TreeEntry({AsEntry(c, kids[c]) : c \in {n \in names : kids[n] # Null}})

\* one side: d is dE (a blob, a directory holding gE, or absent), f is fE
Side(dE, gE, fE) ==
    LET kids == [c \in {"d", "f"} |-> IF c = "d" THEN dE ELSE fE]
    IN  [p \in Paths |-> CASE p = "root" -> Dir({"d", "f"}, kids)
                           [] p = "d" -> dE
                           [] p = "f" -> fE
                           [] p = "g" -> gE]

\* the sides whose blobs are drawn from the pools dBlobs, gBlobs and fChoices
SideTrees(dBlobs, gBlobs, fChoices) ==
    {Side(dE, Null, fE) : dE \in {Null} \cup dBlobs, fE \in fChoices}
    \cup {Side(Dir({"g"}, [c \in {"g"} |-> gE]), gE, fE) :
            gE \in {Null} \cup gBlobs, fE \in fChoices}

\* every blob over the bounded texts and the two blob modes
AllBlobs == {BlobEntry(m, t) : m \in BlobModes, t \in Texts}

\* the blobs of the trees walked in depth: one for d when d is a file, the
\* versions of d/g (three are enough for a three-way conflict), two versions of f
DBlobs == {BlobEntry("100644", <<1, 1>>)}

GBlobs == {BlobEntry("100644", <<a, 1>>) : a \in 0..MaxWalkText}

FBlobs == {BlobEntry("100644", t) : t \in {<<1, 1>>, <<2, 1>>}}

\* what the ConflictResolver may hand back
ResolverTexts == {EmptyText, <<1, 2>>}

NoText == <<Marker, Marker>>

\* the objects a side's tree holds in the store
Objects(t) == {t[p].oid : p \in {q \in Paths : t[q] # Null}}

(***************************************************************************)
(* The walk                                                                *)
(***************************************************************************)
\* the walk visits a path when some side has an entry there
Exists(p) == \E s \in Sides : trees[s][p] # Null

FirstError(err) == IF outcome = "running" THEN err ELSE outcome

InitWith(sides) ==
    /\ trees \in [Sides -> sides]
    /\ dryRun \in BOOLEAN
    /\ pc = [p \in Paths |-> "idle"]
    /\ res = [p \in Paths |-> Undefined]
    /\ store = UNION {Objects(trees[s]) : s \in Sides}
    /\ writes = {}
    /\ calls = [p \in Paths |-> {}]
    /\ resolved = [p \in Paths |-> NoText]
    /\ thrown = [p \in Paths |-> "none"]
    /\ outcome = "running"
    /\ ret = NoOid

\* trees with a directory d, walked in depth
Init == InitWith(SideTrees(DBlobs, GBlobs, {Null} \cup FBlobs))

\* flat trees: root holds the single path f, drawn from every kind of entry
InitPath == InitWith({Side(Null, Null, fE) : fE \in {Null, TreeEntry({})} \cup AllBlobs})

\* the blob write of mergeBlobs
WriteBlob(text) ==
    /\ store' = writeObject(store, BlobOid(text), MergeBlobsDryRun(dryRun))
    /\ writes' = writes \cup {[type |-> "blob", oid |-> BlobOid(text),
                               dryRun |-> MergeBlobsDryRun(dryRun)]}

\* the walk calls map on a path once its parent's map has returned
MapCall(p) ==
    /\ pc[p] = "idle"
    /\ Exists(p)
    /\ p # "root" => pc[Parent[p]] = "mapped"
    /\ LET s == map(p, trees["ours"][p], trees["base"][p], trees["theirs"][p])
       IN  /\ calls' = [calls EXCEPT ![p] = s.calls]
           /\ CASE s.kind = "return" ->
                     /\ pc' = [pc EXCEPT ![p] = "mapped"]
                     /\ res' = [res EXCEPT ![p] = s.entry]
                     /\ UNCHANGED <<store, writes, thrown, outcome>>
                [] s.kind = "write" ->
                     /\ WriteBlob(s.text)
                     /\ pc' = [pc EXCEPT ![p] = "mapped"]
                     /\ res' = [res EXCEPT ![p] = s.entry]
                     /\ UNCHANGED <<thrown, outcome>>
                [] s.kind = "await" ->
                     /\ pc' = [pc EXCEPT ![p] = "await"]
                     /\ UNCHANGED <<res, store, writes, thrown, outcome>>
                [] s.kind = "throw" ->
                     /\ pc' = [pc EXCEPT ![p] = "failed"]
                     /\ thrown' = [thrown EXCEPT ![p] = "MergeNotSupportedError"]
                     /\ outcome' = FirstError("MergeNotSupportedError")
                     /\ UNCHANGED <<res, store, writes>>
    /\ UNCHANGED <<trees, dryRun, resolved, ret>>

\* the ConflictResolver hands back text: empty deletes the file
ResolverReturn(p, text) ==
    /\ pc[p] = "await"
    /\ resolved' = [resolved EXCEPT ![p] = text]
    /\ pc' = [pc EXCEPT ![p] = "mapped"]
    /\ IF text = EmptyText
       THEN /\ res' = [res EXCEPT ![p] = Undefined]
            /\ UNCHANGED <<store, writes>>
       ELSE /\ WriteBlob(text)
            /\ res' = [res EXCEPT ![p] =
                         MergeBlobsWritten(p, trees["ours"][p], trees["theirs"][p], text)]
    /\ UNCHANGED <<trees, dryRun, calls, thrown, outcome, ret>>

\* the error mergeBlobs throws for what the ConflictResolver threw
ResolverError(message) ==
    IF message = "Aborted merge" THEN "MergeAbortedError" ELSE "MergeNotSupportedError"

\* the ConflictResolver throws (or is not a function at all)
ResolverThrow(p, message) ==
    /\ pc[p] = "await"
    /\ pc' = [pc EXCEPT ![p] = "failed"]
    /\ thrown' = [thrown EXCEPT ![p] = ResolverError(message)]
    /\ outcome' = FirstError(ResolverError(message))
    /\ UNCHANGED <<trees, dryRun, res, store, writes, calls, resolved, ret>>

\* the children the walk hands to reduce
Walked(p) == {res[c] : c \in {k \in Children(p) : Exists(k)}}

\* reduce without the pruning of emptied directories
reduceKeepsEmptied(parent, entries) ==
    IF parent = Undefined THEN Undefined
    ELSE IF entries # {} THEN [parent EXCEPT !.oid = TreeOid(entries)]
    ELSE parent

\* what reduce returns for parent and the surviving entries
reduce(parent, entries) ==
    IF parent = Undefined THEN Undefined
    ELSE IF parent.type = "tree" /\ entries = {} THEN Undefined
    ELSE IF entries # {} THEN [parent EXCEPT !.oid = TreeOid(entries)]
    ELSE parent

\* whether reduce writes a tree object
ReduceWrites(parent, entries) ==
    parent # Undefined /\ entries # {}

\* the walk calls reduce on a path once all its children are reduced
Reduce(p) ==
    /\ pc[p] = "mapped"
    /\ \A c \in Children(p) : Exists(c) => pc[c] = "reduced"
    /\ LET entries == Walked(p) \ {Undefined}
       IN  /\ res' = [res EXCEPT ![p] = reduce(res[p], entries)]
           /\ IF ReduceWrites(res[p], entries)
              THEN /\ store' = writeObject(store, TreeOid(entries), dryRun)
                   /\ writes' = writes \cup {[type |-> "tree", oid |-> TreeOid(entries),
                                              dryRun |-> dryRun]}
              ELSE UNCHANGED <<store, writes>>
    /\ pc' = [pc EXCEPT ![p] = "reduced"]
    /\ UNCHANGED <<trees, dryRun, calls, resolved, thrown, outcome, ret>>

\* mergeTree returns results.oid
Finish ==
    /\ pc["root"] = "reduced"
    /\ outcome = "running"
    /\ IF res["root"] = Undefined
       THEN outcome' = "TypeError" /\ ret' = NoOid
       ELSE outcome' = "ok" /\ ret' = res["root"].oid
    /\ UNCHANGED <<trees, dryRun, pc, res, store, writes, calls, resolved, thrown>>

Next ==
    \/ \E p \in Paths : MapCall(p)
    \/ \E p \in Paths, text \in ResolverTexts : ResolverReturn(p, text)
    \/ \E p \in Paths, message \in {"Aborted merge", "other"} : ResolverThrow(p, message)
    \/ \E p \in Paths : Reduce(p)
    \/ Finish

Spec == Init /\ [][Next]_vars

SpecPath == InitPath /\ [][Next]_vars

(***************************************************************************)
(* Properties                                                              *)
(***************************************************************************)
Ours(p) == trees["ours"][p]

Base(p) == trees["base"][p]

Theirs(p) == trees["theirs"][p]

\* the map callback of p has been entered
Entered(p) == pc[p] # "idle"

\* at most one side of p is changed relative to base
AtMostOneSide(p) == ~(Modified(Ours(p), Base(p)) /\ Modified(Theirs(p), Base(p)))

\* the entry the decision table prescribes when at most one side changed
SingleSideEntry(p) ==
    IF ~Modified(Ours(p), Base(p)) /\ ~Modified(Theirs(p), Base(p))
    THEN AsEntry(p, Base(p))
    ELSE IF Modified(Theirs(p), Base(p))
    THEN (IF Theirs(p) = Null THEN Undefined ELSE AsEntry(p, Theirs(p)))
    ELSE (IF Ours(p) = Null THEN Undefined ELSE AsEntry(p, Ours(p)))

\* C1: when at most one side of a path is changed relative to base, the map
\* callback returns at once the base entry (neither changed), theirs' entry or
\* absent (only theirs changed), ours' entry or absent (only ours changed),
\* and calls neither mergeBlobs, mergeFile nor the ConflictResolver
C1_SingleSideVerbatim ==
    \A p \in Paths :
        (Entered(p) /\ AtMostOneSide(p)) =>
            /\ pc[p] \in {"mapped", "reduced"}
            /\ calls[p] = {}
            /\ pc[p] = "mapped" => res[p] = SingleSideEntry(p)

\* C1 witness: only theirs changed f (to another blob) and map returned theirs
C1_Witness ==
    /\ pc["f"] = "mapped"
    /\ Base("f") # Null /\ Ours("f") = Base("f")
    /\ Theirs("f") # Null /\ Theirs("f") # Base("f") /\ Theirs("f").type = "blob"
    /\ res["f"] = AsEntry("f", Theirs("f"))

\* base has a blob at p, ours a directory, theirs the blob of base unchanged
BlobToDirByOurs(p) ==
    /\ Base(p) # Null /\ Base(p).type = "blob"
    /\ Ours(p) # Null /\ Ours(p).type = "tree"
    /\ Theirs(p) = Base(p)

\* C2 as stated: when base has a blob at a path, ours a directory there and
\* theirs the unchanged blob, mergeTree fails with MergeNotSupportedError
\* and returns no merged tree oid
C2_BlobToDirFails ==
    \A p \in Paths :
        (BlobToDirByOurs(p) /\ outcome # "running") =>
            (outcome = "MergeNotSupportedError" /\ ret = NoOid)

\* C2 amended: for that shape the map callback throws nothing and calls no
\* merger: it returns ours' directory entry; reduce leaves the path with ours'
\* tree oid (absent when ours' directory is empty), and a
\* MergeNotSupportedError of the call was thrown for another path
C2_BlobToDirTakesOurs ==
    \A p \in Paths :
        (BlobToDirByOurs(p) /\ Entered(p)) =>
            /\ pc[p] \in {"mapped", "reduced"}
            /\ calls[p] = {}
            /\ pc[p] = "mapped" => res[p] = AsEntry(p, Ours(p))
            /\ pc[p] = "reduced" =>
                  res[p] = IF Ours(p).oid.es = {} THEN Undefined
                           ELSE AsEntry(p, Ours(p))
            /\ outcome = "MergeNotSupportedError" =>
                  \E q \in Paths \ {p} : thrown[q] = "MergeNotSupportedError"

\* C2 witness: d went from blob to directory on our side only, and the merge
\* returned a tree that holds ours' directory at d
C2_Witness ==
    /\ BlobToDirByOurs("d")
    /\ outcome = "ok"
    /\ AsEntry("d", Ours("d")) \in ret.es

\* C3: when the ConflictResolver called for some path throws the abort
\* signal, the mergeTree call fails with MergeAbortedError, whatever the
\* other paths do and in whatever order the sibling callbacks run
C3_AbortAlwaysWins ==
    (\E p \in Paths : thrown[p] = "MergeAbortedError") => outcome = "MergeAbortedError"

\* the objects the store held before the merge
InitialStore == UNION {Objects(trees[s]) : s \in Sides}

\* C4: under dryRun = true the merge persists nothing: after any sequence of
\* map and reduce steps the store holds the objects of before the merge, the
\* tree writes of reduce and the blob writes of mergeBlobs being dry runs
C4_DryRunPersistsNothing == dryRun => store = InitialStore

\* C5: whenever mergeBlobs returns an entry and the three modes are known,
\* by a shortcut, a clean textual merge or resolver text alike, the entry's
\* mode is theirs.mode when base.mode = ours.mode, and ours.mode otherwise
C5_MergedModeRule ==
    \A p \in Paths :
        ( /\ pc[p] = "mapped"
          /\ "mergeBlobs" \in calls[p]
          /\ ModesKnown(Ours(p), Base(p), Theirs(p))
          /\ res[p] # Undefined ) =>
            res[p].mode = IF Base(p).mode = Ours(p).mode THEN Theirs(p).mode
                          ELSE Ours(p).mode

\* ours and theirs are blobs that both differ from base and agree with each other
SameChangeBothSides(p) ==
    /\ Ours(p) # Null /\ Ours(p).type = "blob"
    /\ Theirs(p) # Null /\ Theirs(p).type = "blob"
    /\ Modified(Ours(p), Base(p)) /\ Modified(Theirs(p), Base(p))
    /\ Ours(p).oid = Theirs(p).oid /\ Ours(p).mode = Theirs(p).mode

\* C6: where ours and theirs are blobs that both differ from base and agree
\* with each other, the result entry carries the shared oid and neither
\* mergeFile nor the ConflictResolver is called for the path
C6_SameChangeNoTextMerge ==
    \A p \in Paths :
        (SameChangeBothSides(p) /\ Entered(p)) =>
            /\ "mergeFile" \notin calls[p]
            /\ "resolver" \notin calls[p]
            /\ pc[p] \in {"mapped", "reduced"}
            /\ res[p] # Undefined /\ res[p].oid = Ours(p).oid

\* the reduced children of p that survive
Surviving(p) == {c \in Children(p) : Exists(c) /\ res[c] # Undefined}

\* C7: every tree object reduce writes holds at least one entry, no written
\* tree lists an empty directory, and a reduced entry of type tree has a
\* surviving child, so a directory whose children are all absent is absent
C7_NoEmptyTree ==
    /\ \A w \in writes :
          w.type = "tree" =>
              /\ w.oid.es # {}
              /\ \A e \in w.oid.es : e.type = "tree" => e.oid.es # {}
    /\ \A p \in Paths :
          (pc[p] = "reduced" /\ res[p] # Undefined /\ res[p].type = "tree") =>
              /\ Surviving(p) # {}
              /\ res[p].oid = TreeOid({res[c] : c \in Surviving(p)})

\* C7 witness: d is a directory holding g in base, ours and theirs, g was
\* resolved to nothing, and reduce pruned d
C7_Witness ==
    /\ \A s \in Sides : trees[s]["d"].type = "tree" /\ trees[s]["g"] # Null
    /\ pc["g"] = "reduced" /\ res["g"] = Undefined
    /\ pc["d"] = "reduced" /\ res["d"] = Undefined
    /\ outcome = "ok"

\* C8: an entry of type blob keeps the blob oid the map callback gave it:
\* reduce never puts the oid of a tree it wrote into an entry of type blob
C8_BlobKeepsBlobOid ==
    \A p \in Paths :
        (res[p] # Undefined /\ res[p].type = "blob") => res[p].oid.k = "blob"

\* p is listed, as res[p], in the tree of every ancestor up to the root
InFinalTree(p) ==
    /\ res[p] # Undefined
    /\ res["root"] # Undefined
    /\ p # "root" =>
          /\ res[Parent[p]] # Undefined
          /\ res[p] \in res[Parent[p]].oid.es
          /\ Parent[p] # "root" => res[Parent[p]] \in res["root"].oid.es

\* C9: after a successful merge every path whose ConflictResolver call
\* returned non-empty text is in the merged tree as a blob of exactly that text
C9_ResolvedTextKept ==
    outcome = "ok" =>
        \A p \in Paths :
            (resolved[p] # NoText /\ resolved[p] # EmptyText) =>
                /\ InFinalTree(p)
                /\ res[p].type = "blob"
                /\ res[p].oid = BlobOid(resolved[p])

\* C10: a mergeTree call ends by returning the root entry's oid, by
\* MergeNotSupportedError or by MergeAbortedError, also when every
\* top-level path resolves to absent
C10_ThreeOutcomes ==
    outcome \in {"running", "ok", "MergeNotSupportedError", "MergeAbortedError"}

====
